---- MODULE Spec2Model ----
(***************************************************************************)
(* Model of the counter program of src/src/lib.rs: one instruction handler *)
(* (process_instructions) behind the host entrypoint, the Borsh codecs of  *)
(* Instructions and Counter, and the account data the host persists.       *)
(*                                                                         *)
(* A u32 is kept at its full width.  TLC integers are 32-bit signed, so a  *)
(* u32 is the record [hi, lo] of its two 16-bit halves (value              *)
(* hi * 2^16 + lo) and the arithmetic carries between the halves.          *)
(***************************************************************************)
EXTENDS Integers, Sequences, FiniteSets, TLC

VARIABLES
    overflow_checks,  \* build profile: TRUE = overflow checks on (debug), FALSE = off (release)
    store,            \* host account storage: account key -> data bytes
    n,                \* number of invocations the host has run
    call,             \* the last invocation: inputs, result and what it left behind
    prev,             \* the invocation before the last one
    init_store,       \* the account data before the first invocation
    inc_sum,          \* per account key: wrapped sum of the amounts of successful Increments
    dec_sum,          \* per account key: wrapped sum of the amounts of successful Decrements
    rt                \* codec round trip: value encoded, its bytes, value decoded from them

vars == <<overflow_checks, store, n, call, prev, init_store, inc_sum, dec_sum, rt>>

-----------------------------------------------------------------------------
(* Bounds *)

\* the host runs at most this many invocations in one behaviour
MaxInvocations == 2

-----------------------------------------------------------------------------
(* u32 (the type of Counter.count and of both instruction payloads) *)

\* one 16-bit half of a u32
Half == 65536

\* one byte
ByteRange == 256

U32(hi, lo) == [hi |-> hi, lo |-> lo]

U32_MAX == U32(Half - 1, Half - 1)

\* faulty variant: the bytes most significant first
to_be_bytes(x) ==
    << x.hi \div ByteRange, x.hi % ByteRange, x.lo \div ByteRange, x.lo % ByteRange >>

\* u32::to_le_bytes, as borsh writes a u32
to_le_bytes(x) ==
    << x.lo % ByteRange, x.lo \div ByteRange, x.hi % ByteRange, x.hi \div ByteRange >>

\* u32::from_le_bytes, as borsh reads a u32 (b has 4 bytes)
from_le_bytes(b) ==
    U32(b[3] + ByteRange * b[4], b[1] + ByteRange * b[2])

\* a + b does not fit in 32 bits
add_overflows(a, b) ==
    a.hi + b.hi + ((a.lo + b.lo) \div Half) >= Half

\* a + b modulo 2^32
wrapping_add(a, b) ==
    U32((a.hi + b.hi + ((a.lo + b.lo) \div Half)) % Half, (a.lo + b.lo) % Half)

\* a - b is negative
sub_overflows(a, b) ==
    \/ a.hi < b.hi
    \/ a.hi = b.hi /\ a.lo < b.lo

\* a - b modulo 2^32
wrapping_sub(a, b) ==
    LET borrow == IF a.lo < b.lo THEN 1 ELSE 0
    IN  U32((a.hi - b.hi - borrow + Half) % Half, (a.lo - b.lo + Half) % Half)

-----------------------------------------------------------------------------
(* Borsh codecs derived for Instructions and Counter *)

Increment == "Increment"
Decrement == "Decrement"

\* messages of the std::io::Error values borsh and the slice writer produce
ERROR_UNEXPECTED_LENGTH_OF_INPUT == "Unexpected length of input"
ERROR_NOT_ALL_BYTES_READ == "Not all bytes read"
\* format!("Unexpected variant tag: {:?}", variant_tag): the text names the tag read
ERROR_UNEXPECTED_VARIANT(variant_tag) == "Unexpected variant tag: " \o ToString(variant_tag)
ERROR_WRITE_ZERO == "failed to write whole buffer"

Decoded(v, rest) == [ok |-> TRUE, err |-> "", value |-> v, rest |-> rest]
DecodeError(msg, v) == [ok |-> FALSE, err |-> msg, value |-> v, rest |-> << >>]

\* placeholder values carried by a failed decode
NoU32 == U32(0, 0)
NoInstruction == [tag |-> "None", value |-> NoU32]

\* <u8 as BorshDeserialize>::deserialize: one byte off the front of the slice
u8_deserialize(buf) ==
    IF Len(buf) < 1
    THEN DecodeError(ERROR_UNEXPECTED_LENGTH_OF_INPUT, 0)
    ELSE Decoded(buf[1], SubSeq(buf, 2, Len(buf)))

\* <u32 as BorshDeserialize>::deserialize: four little-endian bytes off the front
u32_deserialize(buf) ==
    IF Len(buf) < 4
    THEN DecodeError(ERROR_UNEXPECTED_LENGTH_OF_INPUT, NoU32)
    ELSE Decoded(from_le_bytes(SubSeq(buf, 1, 4)), SubSeq(buf, 5, Len(buf)))

\* derived Instructions::deserialize: the variant tag byte, then the variant's u32
Instructions_deserialize(buf) ==
    LET t == u8_deserialize(buf)
        p == u32_deserialize(t.rest)
    IN  IF ~t.ok THEN DecodeError(t.err, NoInstruction)
        ELSE IF t.value = 0
             THEN IF p.ok THEN Decoded([tag |-> Increment, value |-> p.value], p.rest)
                          ELSE DecodeError(p.err, NoInstruction)
        ELSE IF t.value = 1
             THEN IF p.ok THEN Decoded([tag |-> Decrement, value |-> p.value], p.rest)
                          ELSE DecodeError(p.err, NoInstruction)
        ELSE DecodeError(ERROR_UNEXPECTED_VARIANT(t.value), NoInstruction)

\* faulty variant: trailing bytes are ignored
Instructions_try_from_slice_prefix(buf) == Instructions_deserialize(buf)

\* Instructions::try_from_slice: deserialize, then every byte must have been read
Instructions_try_from_slice(buf) ==
    LET d == Instructions_deserialize(buf)
    IN  IF ~d.ok THEN d
        ELSE IF Len(d.rest) > 0 THEN DecodeError(ERROR_NOT_ALL_BYTES_READ, NoInstruction)
        ELSE d

\* derived Instructions::serialize: the variant index as one byte, then the u32
Instructions_serialize(ins) ==
    << (IF ins.tag = Increment THEN 0 ELSE 1) >> \o to_le_bytes(ins.value)

\* derived Counter::deserialize: the single field count
Counter_deserialize(buf) ==
    LET c == u32_deserialize(buf)
    IN  IF c.ok THEN Decoded([count |-> c.value], c.rest)
                ELSE DecodeError(c.err, [count |-> NoU32])

\* faulty variant: trailing bytes are ignored
Counter_try_from_slice_prefix(buf) == Counter_deserialize(buf)

\* faulty variant: a short buffer is read as if zero-extended to four bytes
Counter_try_from_slice_padded(buf) ==
    IF Len(buf) > 4
    THEN DecodeError(ERROR_NOT_ALL_BYTES_READ, [count |-> NoU32])
    ELSE Decoded([count |-> from_le_bytes([i \in 1..4 |-> IF i <= Len(buf) THEN buf[i] ELSE 0])],
                 << >>)

\* Counter::try_from_slice: deserialize, then every byte must have been read
Counter_try_from_slice(buf) ==
    LET d == Counter_deserialize(buf)
    IN  IF ~d.ok THEN d
        ELSE IF Len(d.rest) > 0 THEN DecodeError(ERROR_NOT_ALL_BYTES_READ, [count |-> NoU32])
        ELSE d

\* derived Counter::serialize: the bytes it hands to the writer
Counter_serialize(counter) == to_le_bytes(counter.count)

-----------------------------------------------------------------------------
(* Account handles and the write through acc.data *)

\* the AccountInfo the entrypoint builds for account key k: its data slice
\* covers the whole of the account's stored bytes
AccountInfo(k, st) == [key |-> k, off |-> 0, len |-> Len(st[k])]

\* the bytes seen through acc.data.borrow()
data_of(st, acc) == SubSeq(st[acc.key], acc.off + 1, acc.off + acc.len)

\* faulty variant: the writer grows the account data, appending the bytes
write_all_append(st, acc, bytes) ==
    [ok    |-> TRUE,
     store |-> [st EXCEPT ![acc.key] = st[acc.key] \o bytes],
     acc   |-> acc]

\* faulty variant: the bytes go to a copy of the account data
write_all_to_copy(st, acc, bytes) ==
    [ok |-> Len(bytes) <= acc.len, store |-> st, acc |-> acc]

\* io::Write::write_all on the slice held in acc.data: copies as many bytes as
\* fit to the front of the slice, in place, and advances the slice past them;
\* fails with WriteZero when not all bytes fitted
write_all(st, acc, bytes) ==
    LET amt == IF Len(bytes) < acc.len THEN Len(bytes) ELSE acc.len
        old == st[acc.key]
        new == [i \in 1..Len(old) |->
                   IF i > acc.off /\ i <= acc.off + amt THEN bytes[i - acc.off] ELSE old[i]]
    IN  [ok    |-> amt = Len(bytes),
         store |-> [st EXCEPT ![acc.key] = new],
         acc   |-> [acc EXCEPT !.off = acc.off + amt, !.len = acc.len - amt]]

-----------------------------------------------------------------------------
(* process_instructions *)

\* what an invocation hands back to the host
ProgramOk == [kind |-> "Ok", msg |-> ""]
NotEnoughAccountKeys == [kind |-> "NotEnoughAccountKeys", msg |-> ""]
BorshIoError(msg) == [kind |-> "BorshIoError", msg |-> msg]
\* not a ProgramError: the program aborts on an arithmetic overflow panic
Panic == [kind |-> "Panic", msg |-> "arithmetic overflow"]

\* the statement of process_instructions an invocation stopped at
AtNextAccountInfo == "next_account_info"
AtInstructionDecode == "Instructions::try_from_slice"
AtCounterDecode == "Counter::try_from_slice"
AtArithmetic == "match instruction"
AtSerialize == "serialize"
AtReturn == "Ok(())"

NoAccount == [key |-> "none", off |-> 0, len |-> 0]

\* result: returned to the host; stage: where the function stopped;
\* store: the account storage it leaves; acc: the first account's handle as left;
\* log: the values logged with msg!
Outcome(result, stage, st, acc, log) ==
    [result |-> result, stage |-> stage, store |-> st, acc |-> acc, log |-> log]

\* faulty variant: the overflow check is there whatever the build
arithmetic_panics_any_build(instruction, counter_data, checks) ==
    IF instruction.tag = Increment
    THEN add_overflows(counter_data.count, instruction.value)
    ELSE sub_overflows(counter_data.count, instruction.value)

\* with overflow checks compiled in, += and -= panic when the result does not fit
arithmetic_panics(instruction, counter_data, checks) ==
    /\ checks
    /\ IF instruction.tag = Increment
       THEN add_overflows(counter_data.count, instruction.value)
       ELSE sub_overflows(counter_data.count, instruction.value)

\* faulty variant: saturating arithmetic
apply_instruction_saturating(instruction, counter_data) ==
    IF instruction.tag = Increment
    THEN [count |-> IF add_overflows(counter_data.count, instruction.value)
                    THEN U32_MAX
                    ELSE wrapping_add(counter_data.count, instruction.value)]
    ELSE [count |-> IF sub_overflows(counter_data.count, instruction.value)
                    THEN U32(0, 0)
                    ELSE wrapping_sub(counter_data.count, instruction.value)]

\* the match on the instruction: counter_data.count += value or -= value
apply_instruction(instruction, counter_data) ==
    IF instruction.tag = Increment
    THEN [count |-> wrapping_add(counter_data.count, instruction.value)]
    ELSE [count |-> wrapping_sub(counter_data.count, instruction.value)]

\* faulty variant: accounts[0], which panics on an empty list
next_account_info_indexed(accounts) ==
    IF Len(accounts) = 0
    THEN [ok |-> FALSE, err |-> Panic, acc |-> NoAccount]
    ELSE [ok |-> TRUE, err |-> ProgramOk, acc |-> accounts[1]]

\* next_account_info on a fresh iterator over the accounts: the first account,
\* or NotEnoughAccountKeys when there is none
next_account_info(accounts) ==
    IF Len(accounts) = 0
    THEN [ok |-> FALSE, err |-> NotEnoughAccountKeys, acc |-> NoAccount]
    ELSE [ok |-> TRUE, err |-> ProgramOk, acc |-> accounts[1]]

\* faulty variant: the account data is decoded before the instruction
process_instructions_state_first(st, accounts, instruction_data, checks) ==
    LET first == next_account_info(accounts)
        acc == first.acc
        instruction == Instructions_try_from_slice(instruction_data)
        counter_data == Counter_try_from_slice(data_of(st, acc))
        updated == apply_instruction(instruction.value, counter_data.value)
        w == write_all(st, acc, Counter_serialize(updated))
    IN  IF ~first.ok
        THEN Outcome(first.err, AtNextAccountInfo, st, acc, << >>)
        ELSE IF ~counter_data.ok
        THEN Outcome(BorshIoError(counter_data.err), AtCounterDecode, st, acc, << >>)
        ELSE IF ~instruction.ok
        THEN Outcome(BorshIoError(instruction.err), AtInstructionDecode, st, acc, << >>)
        ELSE IF arithmetic_panics(instruction.value, counter_data.value, checks)
        THEN Outcome(Panic, AtArithmetic, st, acc, << >>)
        ELSE IF ~w.ok
        THEN Outcome(BorshIoError(ERROR_WRITE_ZERO), AtSerialize, w.store, w.acc, << >>)
        ELSE Outcome(ProgramOk, AtReturn, w.store, w.acc, << updated.count >>)

process_instructions(st, accounts, instruction_data, checks) ==
    LET first == next_account_info(accounts)
        acc == first.acc
        instruction == Instructions_try_from_slice(instruction_data)
        counter_data == Counter_try_from_slice(data_of(st, acc))
        updated == apply_instruction(instruction.value, counter_data.value)
        w == write_all(st, acc, Counter_serialize(updated))
    IN  IF ~first.ok
        THEN Outcome(first.err, AtNextAccountInfo, st, acc, << >>)
        ELSE IF ~instruction.ok
        THEN Outcome(BorshIoError(instruction.err), AtInstructionDecode, st, acc, << >>)
        ELSE IF ~counter_data.ok
        THEN Outcome(BorshIoError(counter_data.err), AtCounterDecode, st, acc, << >>)
        ELSE IF arithmetic_panics(instruction.value, counter_data.value, checks)
        THEN Outcome(Panic, AtArithmetic, st, acc, << >>)
        ELSE IF ~w.ok
        THEN Outcome(BorshIoError(ERROR_WRITE_ZERO), AtSerialize, w.store, w.acc, << >>)
        ELSE Outcome(ProgramOk, AtReturn, w.store, w.acc, << updated.count >>)

-----------------------------------------------------------------------------
(* The host: accounts, instruction buffers, the entrypoint *)

\* the accounts the host holds
Keys == {"A", "B"}

\* counts the counter account A starts with
Counts == {U32(0, 0), U32(0, 10), U32(0, Half - 1), U32_MAX}

\* amounts clients send
Amounts == {U32(0, 1), U32(0, 3), U32(0, 5), U32_MAX}

\* data the second account B was allocated with: empty, too short, a counter, too long
OtherData == { << >>, <<7, 0, 0>>, <<10, 0, 0, 0>>, <<10, 0, 0, 0, 0>> }

\* the account lists a transaction can name
AccountLists == { << >>, <<"A">>, <<"B", "A">> }

ValidInstructions == [tag : {Increment, Decrement}, value : Amounts]

\* buffers that are no encoding of an instruction: empty, tag only, truncated
\* payload, trailing byte, unknown tag
MalformedBuffers ==
    { << >>, <<0>>, <<1, 5, 0, 0>>, <<0, 5, 0, 0, 0, 0>>, <<2, 5, 0, 0, 0>> }

InstructionBuffers ==
    { Instructions_serialize(ins) : ins \in ValidInstructions } \cup MalformedBuffers

NoCall(st) ==
    [accounts |-> << >>, instruction_data |-> << >>, before |-> st,
     result |-> [kind |-> "None", msg |-> ""], stage |-> "none",
     acc |-> NoAccount, log |-> << >>]

RtIdle == [kind |-> "idle", value |-> NoU32, tag |-> "None", bytes |-> << >>,
           decoded |-> DecodeError("", NoU32)]

Zero == [k \in Keys |-> U32(0, 0)]

Init ==
    /\ overflow_checks \in BOOLEAN
    /\ \E a \in Counts, b \in OtherData :
           store = [k \in Keys |-> IF k = "A" THEN to_le_bytes(a) ELSE b]
    /\ n = 0
    /\ call = NoCall(store)
    /\ prev = NoCall(store)
    /\ init_store = store
    /\ inc_sum = Zero
    /\ dec_sum = Zero
    /\ rt = RtIdle

\* the running sum of account k after instruction ins, which is added when it
\* is of kind tag and counts
Credit(sum, k, ins, tag, counts) ==
    IF counts /\ ins.tag = tag
    THEN [sum EXCEPT ![k] = wrapping_add(sum[k], ins.value)]
    ELSE sum

\* the account handles the entrypoint builds for one invocation
AccountInfos(accounts, st) == [i \in 1..Len(accounts) |-> AccountInfo(accounts[i], st)]

\* One invocation through the entrypoint: the host hands the program fresh
\* account handles over the stored data and the instruction bytes, and keeps
\* what the program left in the account data (no host rollback is modelled).
Invoke(accounts, instruction_data) ==
    /\ n < MaxInvocations
    /\ LET infos == AccountInfos(accounts, store)
           out == process_instructions(store, infos, instruction_data, overflow_checks)
           ins == Instructions_try_from_slice(instruction_data)
           done == Len(accounts) > 0 /\ ins.ok /\ out.result = ProgramOk
           k == IF Len(accounts) > 0 THEN accounts[1] ELSE "A"
       IN  /\ store' = out.store
           /\ call' = [accounts |-> accounts, instruction_data |-> instruction_data,
                       before |-> store, result |-> out.result, stage |-> out.stage,
                       acc |-> out.acc, log |-> out.log]
           /\ inc_sum' = Credit(inc_sum, k, ins.value, Increment, done)
           /\ dec_sum' = Credit(dec_sum, k, ins.value, Decrement, done)
    /\ prev' = call
    /\ n' = n + 1
    /\ UNCHANGED <<overflow_checks, init_store, rt>>

Next == \E accounts \in AccountLists, instruction_data \in InstructionBuffers :
            Invoke(accounts, instruction_data)

Spec == Init /\ [][Next]_vars

-----------------------------------------------------------------------------
(* The codecs on their own: encode a value, then decode the bytes *)

\* 16-bit halves the sampled u32 values are built from
SampleHalves == {0, 1, 10, ByteRange - 1, ByteRange, 4660, Half - 1}

SampleU32 == { U32(hi, lo) : hi \in SampleHalves, lo \in SampleHalves }

Pending == DecodeError("pending", NoU32)

HostUnchanged ==
    UNCHANGED <<overflow_checks, store, n, call, prev, init_store, inc_sum, dec_sum>>

InitCodec ==
    /\ Init
    /\ ~overflow_checks
    /\ store = [k \in Keys |-> IF k = "A" THEN to_le_bytes(U32(0, 10)) ELSE << >>]

EncodeCounter(c) ==
    /\ rt.kind = "idle"
    /\ rt' = [kind |-> "counter", value |-> c, tag |-> "None",
              bytes |-> Counter_serialize([count |-> c]), decoded |-> Pending]
    /\ HostUnchanged

DecodeCounter ==
    /\ rt.kind = "counter"
    /\ rt.decoded = Pending
    /\ LET d == Counter_try_from_slice(rt.bytes)
       IN  rt' = [rt EXCEPT !.decoded = [d EXCEPT !.value = d.value.count]]
    /\ HostUnchanged

EncodeInstruction(tag, v) ==
    /\ rt.kind = "idle"
    /\ rt' = [kind |-> "instruction", value |-> v, tag |-> tag,
              bytes |-> Instructions_serialize([tag |-> tag, value |-> v]),
              decoded |-> Pending]
    /\ HostUnchanged

DecodeInstruction ==
    /\ rt.kind = "instruction"
    /\ rt.decoded = Pending
    /\ rt' = [rt EXCEPT !.decoded = Instructions_try_from_slice(rt.bytes)]
    /\ HostUnchanged

NextCodec ==
    \/ \E c \in SampleU32 : EncodeCounter(c)
    \/ DecodeCounter
    \/ \E tag \in {Increment, Decrement}, v \in SampleU32 : EncodeInstruction(tag, v)
    \/ DecodeInstruction

SpecCodec == InitCodec /\ [][NextCodec]_vars

-----------------------------------------------------------------------------
(* Vocabulary of the properties *)

\* an invocation has run
Called == call.stage # "none"

\* the key of the first account of the last invocation
FirstKey == call.accounts[1]

\* the last invocation named an account and its instruction bytes decode
ValidCall ==
    /\ Called
    /\ Len(call.accounts) > 0
    /\ Instructions_try_from_slice(call.instruction_data).ok

CallTag == Instructions_try_from_slice(call.instruction_data).value.tag

\* the four payload bytes of the last instruction buffer
AmountBytes == SubSeq(call.instruction_data, 2, 5)

\* the first account's data before and after the last invocation
DataBefore == call.before[FirstKey]
DataAfter == store[FirstKey]

\* byte-wise little-endian addition of two 4-byte numbers: carries and digits
AddCarry(b, a, i) ==
    LET c1 == (b[1] + a[1]) \div 256
        c2 == (b[2] + a[2] + c1) \div 256
        c3 == (b[3] + a[3] + c2) \div 256
        c4 == (b[4] + a[4] + c3) \div 256
    IN  << 0, c1, c2, c3, c4 >>[i + 1]

\* the 4-byte little-endian encoding of (b + a) mod 2^32
LeSum(b, a) == [i \in 1..4 |-> (b[i] + a[i] + AddCarry(b, a, i - 1)) % 256]

\* b + a exceeds 2^32 - 1
SumExceeds(b, a) == AddCarry(b, a, 4) = 1

\* byte-wise little-endian subtraction: borrows and digits
SubBorrow(b, a, i) ==
    LET r1 == IF b[1] - a[1] < 0 THEN 1 ELSE 0
        r2 == IF b[2] - a[2] - r1 < 0 THEN 1 ELSE 0
        r3 == IF b[3] - a[3] - r2 < 0 THEN 1 ELSE 0
        r4 == IF b[4] - a[4] - r3 < 0 THEN 1 ELSE 0
    IN  << 0, r1, r2, r3, r4 >>[i + 1]

\* the 4-byte little-endian encoding of (b - a) mod 2^32
LeDiff(b, a) == [i \in 1..4 |-> (b[i] - a[i] - SubBorrow(b, a, i - 1) + 256) % 256]

\* a exceeds b
DiffNegative(b, a) == SubBorrow(b, a, 4) = 1

\* the last invocation was a well-formed Increment on a 4-byte account
IncrementCall == ValidCall /\ CallTag = Increment /\ Len(DataBefore) = 4

\* the last invocation was a well-formed Decrement on a 4-byte account
DecrementCall == ValidCall /\ CallTag = Decrement /\ Len(DataBefore) = 4

-----------------------------------------------------------------------------
(* C1: Increment *)

\* C1 as stated: every well-formed Increment(v) on a 4-byte account holding c
\* succeeds and leaves the encoding of (c + v) mod 2^32, also when c + v
\* exceeds 2^32 - 1.
C1_IncrementAlwaysWraps ==
    IncrementCall =>
        /\ call.result = ProgramOk
        /\ DataAfter = LeSum(DataBefore, AmountBytes)

\* C1 amended: a well-formed Increment(v) on a 4-byte account holding c succeeds
\* and leaves the encoding of (c + v) mod 2^32, except that in a build with
\* overflow checks an Increment with c + v > 2^32 - 1 panics and leaves all
\* account data unchanged.
C1_Increment ==
    IncrementCall =>
        IF overflow_checks /\ SumExceeds(DataBefore, AmountBytes)
        THEN call.result = Panic /\ store = call.before
        ELSE /\ call.result = ProgramOk
             /\ DataAfter = LeSum(DataBefore, AmountBytes)
             /\ call.log = << from_le_bytes(DataAfter) >>

\* an Increment whose sum exceeded 2^32 - 1 was accepted and stored wrapped
C1_Witness ==
    /\ IncrementCall
    /\ SumExceeds(DataBefore, AmountBytes)
    /\ call.result = ProgramOk
    /\ DataAfter # DataBefore

-----------------------------------------------------------------------------
(* C2: Decrement *)

\* C2 as stated: every well-formed Decrement(v) on a 4-byte account holding c
\* succeeds and leaves the encoding of (c - v) mod 2^32, also when v > c.
C2_DecrementAlwaysWraps ==
    DecrementCall =>
        /\ call.result = ProgramOk
        /\ DataAfter = LeDiff(DataBefore, AmountBytes)

\* C2 amended: a well-formed Decrement(v) on a 4-byte account holding c succeeds
\* and leaves the encoding of (c - v) mod 2^32, except that in a build with
\* overflow checks a Decrement with v > c panics and leaves all account data
\* unchanged.
C2_Decrement ==
    DecrementCall =>
        IF overflow_checks /\ DiffNegative(DataBefore, AmountBytes)
        THEN call.result = Panic /\ store = call.before
        ELSE /\ call.result = ProgramOk
             /\ DataAfter = LeDiff(DataBefore, AmountBytes)
             /\ call.log = << from_le_bytes(DataAfter) >>

\* a Decrement by more than the count was accepted and stored wrapped
C2_Witness ==
    /\ DecrementCall
    /\ DiffNegative(DataBefore, AmountBytes)
    /\ call.result = ProgramOk
    /\ DataAfter # DataBefore

-----------------------------------------------------------------------------
(* C3: malformed instruction bytes *)

\* the buffer has the 5-byte layout: discriminant 0 or 1, then four bytes
FiveByteLayout(buf) == Len(buf) = 5 /\ buf[1] \in {0, 1}

\* C3: with an account supplied, a buffer that is not exactly 5 bytes or whose
\* first byte is not 0 or 1 fails at the instruction decoding with the Borsh
\* decoding error and changes nothing; a buffer of exactly 5 bytes with
\* discriminant 0 or 1 gets past the instruction decoding.
C3_MalformedInstruction ==
    (Called /\ Len(call.accounts) > 0) =>
        IF FiveByteLayout(call.instruction_data)
        THEN call.stage \notin {AtNextAccountInfo, AtInstructionDecode}
        ELSE /\ call.stage = AtInstructionDecode
             /\ call.result.kind = "BorshIoError"
             /\ store = call.before

\* a buffer with a valid 5-byte prefix and one trailing byte was rejected
C3_Witness ==
    /\ Called
    /\ Len(call.accounts) > 0
    /\ Len(call.instruction_data) = 6
    /\ call.instruction_data[1] = 0
    /\ call.stage = AtInstructionDecode
    /\ call.result = BorshIoError(ERROR_NOT_ALL_BYTES_READ)

-----------------------------------------------------------------------------
(* C4: malformed account data *)

\* C4: with a valid instruction, a first account whose data is not exactly 4
\* bytes fails at the state decoding with the Borsh decoding error and changes
\* nothing; any 4-byte data gets past the state decoding.
C4_MalformedState ==
    ValidCall =>
        IF Len(DataBefore) = 4
        THEN call.stage \notin {AtNextAccountInfo, AtInstructionDecode, AtCounterDecode}
        ELSE /\ call.stage = AtCounterDecode
             /\ call.result.kind = "BorshIoError"
             /\ store = call.before

\* a first account with 5 bytes of data was rejected at the state decoding
C4_Witness ==
    /\ ValidCall
    /\ Len(DataBefore) = 5
    /\ call.stage = AtCounterDecode
    /\ call.result = BorshIoError(ERROR_NOT_ALL_BYTES_READ)

-----------------------------------------------------------------------------
(* C5: no account *)

\* C5: an invocation with an empty account list fails with
\* NotEnoughAccountKeys, whatever the instruction bytes, and changes no
\* account data.
C5_MissingAccount ==
    (Called /\ Len(call.accounts) = 0) =>
        /\ call.result = NotEnoughAccountKeys
        /\ call.stage = AtNextAccountInfo
        /\ store = call.before

\* an invocation with no account and a well-formed instruction failed
C5_Witness ==
    /\ Called
    /\ Len(call.accounts) = 0
    /\ FiveByteLayout(call.instruction_data)
    /\ call.result = NotEnoughAccountKeys

-----------------------------------------------------------------------------
(* C6: failures leave the account data alone *)

\* C6: an invocation that does not succeed leaves all account data as it was,
\* and no invocation fails at the write-back.
C6_FailureLeavesData ==
    Called =>
        /\ call.stage # AtSerialize
        /\ call.result # ProgramOk => store = call.before

\* an invocation failed on a first account too short to hold a counter
C6_Witness ==
    /\ ValidCall
    /\ Len(DataBefore) \in 1..3
    /\ call.result = BorshIoError(ERROR_UNEXPECTED_LENGTH_OF_INPUT)
    /\ call.stage = AtCounterDecode
    /\ store = call.before

-----------------------------------------------------------------------------
(* C7: encode then decode *)

\* b is the little-endian encoding of the u32 x
IsLittleEndian(b, x) ==
    /\ Len(b) = 4
    /\ \A i \in 1..4 : b[i] \in 0..255
    /\ b[1] + 256 * b[2] = x.lo
    /\ b[3] + 256 * b[4] = x.hi

\* C7: a Counter encodes to exactly 4 bytes, the little-endian count, and
\* decodes back to the same count; an instruction encodes to exactly 5 bytes,
\* discriminant 0 (Increment) or 1 (Decrement) then the little-endian amount,
\* and decodes back to the same tag and amount.
C7_RoundTrip ==
    /\ rt.kind = "counter" =>
           /\ IsLittleEndian(rt.bytes, rt.value)
           /\ rt.decoded # Pending =>
                  rt.decoded.ok /\ rt.decoded.value = rt.value
    /\ rt.kind = "instruction" =>
           /\ Len(rt.bytes) = 5
           /\ rt.bytes[1] = (IF rt.tag = Increment THEN 0 ELSE 1)
           /\ IsLittleEndian(SubSeq(rt.bytes, 2, 5), rt.value)
           /\ rt.decoded # Pending =>
                  /\ rt.decoded.ok
                  /\ rt.decoded.value = [tag |-> rt.tag, value |-> rt.value]

\* a Decrement whose amount has four different bytes went through the round trip
C7_Witness ==
    /\ rt.kind = "instruction"
    /\ rt.tag = Decrement
    /\ rt.value = U32(4660, 255)
    /\ rt.decoded.ok
    /\ rt.decoded.value.value = rt.value

-----------------------------------------------------------------------------
(* C8: the account data keeps its length *)

\* C8: a successful invocation leaves the first account's data at the same
\* length, holding the 4-byte encoding of the new count; no invocation changes
\* the length of any account's data, so an account that started with 4 bytes
\* still has 4 bytes that decode as a Counter, and a valid instruction on it
\* never fails at the state decoding.
C8_DataStaysCounter ==
    /\ \A k \in Keys :
           /\ Len(store[k]) = Len(init_store[k])
           /\ Len(init_store[k]) = 4 => Counter_try_from_slice(store[k]).ok
    /\ (Called /\ call.result = ProgramOk) =>
           /\ Len(DataAfter) = 4
           /\ Len(DataBefore) = 4
           /\ DataAfter = to_le_bytes(call.log[1])
           /\ \A k \in Keys \ {FirstKey} : store[k] = call.before[k]
    /\ (ValidCall /\ Len(init_store[FirstKey]) = 4) => call.stage # AtCounterDecode

\* two invocations in a row succeeded on the same account
C8_Witness ==
    /\ prev.result = ProgramOk
    /\ call.result = ProgramOk
    /\ prev.accounts[1] = FirstKey
    /\ store[FirstKey] # init_store[FirstKey]
    /\ Len(store[FirstKey]) = 4

-----------------------------------------------------------------------------
(* C9: the order of the checks *)

\* the checks run in the order account, instruction, state, and the first
\* failure is the one reported
ChecksInOrder ==
    Called =>
        /\ Len(call.accounts) = 0 <=> call.stage = AtNextAccountInfo
        /\ call.stage = AtNextAccountInfo <=> call.result = NotEnoughAccountKeys
        /\ (Len(call.accounts) > 0
               /\ ~Instructions_try_from_slice(call.instruction_data).ok)
           <=> call.stage = AtInstructionDecode
        /\ call.stage = AtCounterDecode =>
               ValidCall /\ ~Counter_try_from_slice(DataBefore).ok
        /\ call.stage \in {AtInstructionDecode, AtCounterDecode} =>
               call.result.kind = "BorshIoError"

FailedCheck(c) == c.stage \in {AtNextAccountInfo, AtInstructionDecode, AtCounterDecode}

\* C9 as stated: the checks run in order and the three failures (no account,
\* malformed instruction, malformed state) are reported as errors the caller
\* can tell apart.
C9_ErrorsDistinguishable ==
    /\ ChecksInOrder
    /\ (FailedCheck(prev) /\ FailedCheck(call) /\ prev.stage # call.stage) =>
           prev.result # call.result

\* C9 amended: the checks run in order and only the first failure is reported;
\* a missing account is reported as NotEnoughAccountKeys, which no other
\* failure produces, while a malformed instruction and a malformed state are
\* both reported as BorshIoError and differ at most in the message.
C9_CheckOrder ==
    /\ ChecksInOrder
    /\ (FailedCheck(prev) /\ FailedCheck(call) /\ prev.stage # call.stage) =>
           \/ prev.result.kind # call.result.kind
           \/ /\ prev.result.kind = "BorshIoError"
              /\ {prev.stage, call.stage} = {AtInstructionDecode, AtCounterDecode}

\* a malformed instruction was reported although the first account's data is
\* no Counter either
C9_Witness ==
    /\ Called
    /\ Len(call.accounts) > 0
    /\ ~Instructions_try_from_slice(call.instruction_data).ok
    /\ ~Counter_try_from_slice(DataBefore).ok
    /\ call.stage = AtInstructionDecode

-----------------------------------------------------------------------------
(* C10: the count is the initial count plus the net amount applied *)

CounterKeys == { k \in Keys : Len(init_store[k]) = 4 }

\* the stored count is c0 + successful Increments - successful Decrements mod 2^32
NetOfSuccessful ==
    \A k \in CounterKeys :
        store[k] = LeDiff(LeSum(init_store[k], to_le_bytes(inc_sum[k])),
                          to_le_bytes(dec_sum[k]))

\* the account data st after the invocation c
After(st, c) ==
    process_instructions(st, AccountInfos(c.accounts, st), c.instruction_data,
                         overflow_checks).store

\* the last two invocations applied in the other order leave the same counts
OrderFree ==
    (n >= 2 /\ Len(prev.accounts) > 0 /\ Len(call.accounts) > 0) =>
        \A k \in CounterKeys : After(After(prev.before, call), prev)[k] = store[k]

\* the last two invocations were Increment(v) then Decrement(v) on one counter account
IncThenDec ==
    /\ ValidCall
    /\ CallTag = Decrement
    /\ Len(prev.accounts) > 0
    /\ prev.accounts[1] = FirstKey
    /\ FirstKey \in CounterKeys
    /\ prev.instruction_data =
           Instructions_serialize([tag |-> Increment, value |-> from_le_bytes(AmountBytes)])

Restored == IncThenDec => store[FirstKey] = prev.before[FirstKey]

\* C10 as stated: the stored count is the initial count plus the successful
\* Increments minus the successful Decrements mod 2^32, it does not depend on
\* the order of the invocations, and Increment(v) followed by Decrement(v)
\* restores the count.
C10_NetAmountAnyOrder ==
    /\ NetOfSuccessful
    /\ OrderFree
    /\ Restored

\* C10 amended: the stored count is the initial count plus the successful
\* Increments minus the successful Decrements mod 2^32.  In a build without
\* overflow checks it does not depend on the order of the invocations and
\* Increment(v) followed by Decrement(v) restores the count; in a build with
\* overflow checks an invocation that would overflow panics and is not
\* applied, and Increment(v) followed by Decrement(v) restores the count when
\* both succeeded.
C10_NetAmount ==
    /\ NetOfSuccessful
    /\ ~overflow_checks => OrderFree /\ Restored
    /\ (prev.result = ProgramOk /\ call.result = ProgramOk) => Restored

\* Increment(v) wrapped the count and Decrement(v) brought it back
C10_Witness ==
    /\ IncThenDec
    /\ prev.result = ProgramOk
    /\ call.result = ProgramOk
    /\ SumExceeds(prev.before[FirstKey], AmountBytes)
    /\ store[FirstKey] = prev.before[FirstKey]
    /\ inc_sum[FirstKey] = from_le_bytes(AmountBytes)
    /\ dec_sum[FirstKey] = from_le_bytes(AmountBytes)

====
